---- MODULE Spec2Model ----
(***************************************************************************)
(* Model of the Anime-Movie-API gateway: the movie, TV and anime route     *)
(* handlers and their three copies of handleError.  A request is handled   *)
(* by one async handler whose suspension points are its upstream calls;    *)
(* the upstream providers are the environment and answer each call with a  *)
(* payload, an HTTP error, or nothing.                                     *)
(***************************************************************************)
EXTENDS Integers, Sequences, FiniteSets, TLC

\* ---------------------------------------------------------------- bounds
NumReqs == 2        \* requests handled concurrently
MaxLen == 31        \* longest upstream list (above both caps)
MaxPage == 3        \* largest page number a client asks for

\* ------------------------------------------------------ program constants
ListCap == 20       \* slice(0, 20)
ImageCap == 30      \* slice(0, 30)
DefaultPage == 1    \* const { page = 1 } = request.query
BadRequest == 400
NotFound == 404
ServerError == 500
OkStatus == 200     \* express default status of response.send

Reqs == 1 .. NumReqs

\* ------------------------------------------------------------- JS values
\* A JavaScript value that the handlers test for truthiness, concatenate or
\* compare: a string, a number, null, undefined or NaN.
Str(s) == [t |-> "str", s |-> s, n |-> 0]
Num(k) == [t |-> "num", s |-> "", n |-> k]
Null == [t |-> "null", s |-> "", n |-> 0]
Undef == [t |-> "undef", s |-> "", n |-> 0]
NaN == [t |-> "nan", s |-> "", n |-> 0]

Digit == <<"0", "1", "2", "3", "4", "5", "6", "7", "8", "9">>

RECURSIVE NatToStr(_)
NatToStr(k) == IF k < 10 THEN Digit[k + 1]
               ELSE NatToStr(k \div 10) \o Digit[(k % 10) + 1]

\* String(x) / template-literal interpolation
ToStr(x) == CASE x.t = "str" -> x.s
              [] x.t = "num" -> NatToStr(x.n)
              [] x.t = "null" -> "null"
              [] x.t = "undef" -> "undefined"
              [] OTHER -> "NaN"

\* Number(x), on the numerals the model's clients and providers use
ToNumber(x) == CASE x.t = "num" -> x
                 [] x.t = "str" ->
                      IF x.s = "" THEN Num(0)
                      ELSE IF \E k \in 0 .. (MaxPage + 1) : NatToStr(k) = x.s
                           THEN Num(CHOOSE k \in 0 .. (MaxPage + 1) : NatToStr(k) = x.s)
                           ELSE NaN
                 [] x.t = "null" -> Num(0)
                 [] OTHER -> NaN

\* a >= b in place of a > b.
JsGreater_OrEqual(a, b) == LET x == ToNumber(a)
                               y == ToNumber(b)
                           IN  x.t = "num" /\ y.t = "num" /\ x.n >= y.n

\* a > b with a string on one side and a number on the other
JsGreater(a, b) == LET x == ToNumber(a)
                       y == ToNumber(b)
                   IN  x.t = "num" /\ y.t = "num" /\ x.n > y.n

Truthy(x) == \/ x.t = "str" /\ x.s # ""
             \/ x.t = "num" /\ x.n # 0

\* a || b
OrElse(a, b) == IF Truthy(a) THEN a ELSE b

\* prefix + x  (string concatenation coerces x with String)
Concat(prefix, x) == Str(prefix \o ToStr(x))

\* An array value or a missing one (data.results, data.backdrops, ...)
Arr(items) == [t |-> "arr", items |-> items]
NoArr == [t |-> "undef", items |-> <<>>]

\* slice(0, cap + 1) in place of slice(0, cap).
Slice_OneMore(items, cap) ==
    SubSeq(items, 1, IF Len(items) < cap + 1 THEN Len(items) ELSE cap + 1)

\* Array.prototype.slice(0, cap)
Slice(items, cap) == SubSeq(items, 1, IF Len(items) < cap THEN Len(items) ELSE cap)

\* Array.prototype.map
Map(items, F(_)) == [i \in 1 .. Len(items) |-> F(items[i])]

RECURSIVE Join(_, _)
\* Array.prototype.join
Join(items, sep) == IF Len(items) = 0 THEN ""
                    ELSE IF Len(items) = 1 THEN items[1]
                    ELSE items[1] \o sep \o Join(Tail(items), sep)

\* ---------------------------------------------------------- configuration
URLsTmdb == "tmdb:"
URLsJikan == "jikan:"
URLsImage == "img:"

\* ------------------------------------------------------------ the failure
\* What a handler's catch receives: an axios error carrying the upstream
\* response, an axios error carrying only the request, or a local exception.
NoResponsePart == [present |-> FALSE, status |-> 0, data |-> ""]
NoRequestPart == [present |-> FALSE, obj |-> ""]

UpstreamError(status, data) ==
    [response |-> [present |-> TRUE, status |-> status, data |-> data],
     request |-> [present |-> TRUE, obj |-> "ClientRequest"],
     message |-> "Request failed with status code " \o NatToStr(status)]

NoReplyError(obj) ==
    [response |-> NoResponsePart,
     request |-> [present |-> TRUE, obj |-> obj],
     message |-> "timeout"]

LocalError(message) ==
    [response |-> NoResponsePart, request |-> NoRequestPart, message |-> message]

TypeErrorReading(prop) ==
    LocalError("Cannot read properties of undefined (reading '" \o prop \o "')")

\* ------------------------------------------------- the upstream providers
\* The raw image path of the i-th item a provider returns: a path, null,
\* absent, or the empty string.
RawPath(i) == CASE i % 4 = 1 -> Str("/p" \o NatToStr(i) \o ".jpg")
                [] i % 4 = 2 -> Null
                [] i % 4 = 3 -> Undef
                [] OTHER -> Str("")

\* Provider A's movie item (popularity stands for the fields the 9-field
\* projections drop).
MovieItem(i) ==
    [id |-> i, original_language |-> "en",
     original_title |-> "ot" \o NatToStr(i), title |-> "t" \o NatToStr(i),
     overview |-> "o" \o NatToStr(i),
     backdrop_path |-> RawPath(i), poster_path |-> RawPath(i + 1),
     release_date |-> "d" \o NatToStr(i), vote_average |-> i % 10,
     popularity |-> i]

\* Provider A's TV item.
TvItem(i) ==
    [id |-> i, original_language |-> "en",
     original_name |-> "on" \o NatToStr(i), name |-> "n" \o NatToStr(i),
     overview |-> "o" \o NatToStr(i),
     backdrop_path |-> RawPath(i), poster_path |-> RawPath(i + 1),
     first_air_date |-> "d" \o NatToStr(i), vote_average |-> i % 10,
     popularity |-> i]

\* Provider A's image item.
ImageItem(i) ==
    [aspect_ratio |-> i, height |-> 10 * i, width |-> 20 * i,
     file_path |-> RawPath(i), vote_count |-> i]

Items(F(_), len) == [i \in 1 .. len |-> F(i)]

\* Lengths of the lists a provider returns: empty, short, just above the
\* list cap, and above the image cap.
ListLens == {0, 2, ListCap + 1, MaxLen}
ImageLens == {0, ImageCap + 1, MaxLen}

\* An upstream call's outcome as the awaiting handler sees it: the promise
\* resolves with a response whose data is the payload, or rejects with err.
NoData == [t |-> "none"]
Resolved(data) == [ok |-> TRUE, data |-> data, err |-> LocalError("")]
Rejected(err) == [ok |-> FALSE, data |-> NoData, err |-> err]

UpstreamStatuses == {NotFound, ServerError}
UpstreamBodies == {"bodyA", "bodyB"}
FailedRequests == {"reqA", "reqB"}

\* The rejections axios produces for any call.
Rejections ==
    {Rejected(UpstreamError(s, b)) : s \in UpstreamStatuses, b \in UpstreamBodies}
    \cup {Rejected(NoReplyError(q)) : q \in FailedRequests}

\* Provider A's replies to a list call: {results: [...]} of any length, or a
\* payload without results.
MovieListReplies ==
    {Resolved([results |-> Arr(Items(MovieItem, len))]) : len \in ListLens}
    \cup {Resolved([results |-> NoArr])} \cup Rejections

TvListReplies ==
    {Resolved([results |-> Arr(Items(TvItem, len))]) : len \in ListLens}
    \cup {Resolved([results |-> NoArr])} \cup Rejections

\* Provider A's replies to an images call: backdrops and posters are arrays
\* or are missing.
ImageArrays == {Arr(Items(ImageItem, len)) : len \in ImageLens} \cup {NoArr}

ImagesReplies ==
    {Resolved([backdrops |-> b, posters |-> p]) : b \in ImageArrays, p \in ImageArrays}
    \cup Rejections

\* Provider A's replies to the top-rated TV call for a page.
TotalPages == {0, 2}

PagedData(page, res, tp) ==
    [page |-> ToNumber(page), results |-> res,
     total_pages |-> tp, total_results |-> tp * ListCap]

PagedReplies(page) ==
    {Resolved(PagedData(page, res, tp)) :
        res \in {Arr(Items(TvItem, 2)), Arr(<<>>), NoArr}, tp \in TotalPages}
    \cup Rejections

\* ------------------------------------------------------------------ state
VARIABLES
    pc,        \* pc[r]: where request r's handler is: idle, await1..3, done
    req,       \* req[r]: the inbound request (route and parameters)
    calls,     \* calls[r]: the upstream URLs the handler has requested, in order
    replies,   \* replies[r]: the outcomes of those calls, in order
    resp,      \* resp[r]: status and body written to the client
    sent,      \* sent[r]: how many times a body was written
    caught,    \* caught[r]: the failure the handler's catch has received
    log        \* log[r]: the logger's lines emitted while handling r, in order

vars == <<pc, req, calls, replies, resp, sent, caught, log>>

NoReq == [ep |-> "none", time_window |-> Undef, page |-> Undef,
          query |-> Undef, id |-> "", params |-> <<>>]
Request(ep) == [NoReq EXCEPT !.ep = ep]
NoResp == [status |-> 0, kind |-> "none", body |-> ""]
NotCaught == [thrown |-> FALSE, err |-> LocalError("")]

Init ==
    /\ pc = [r \in Reqs |-> "idle"]
    /\ req = [r \in Reqs |-> NoReq]
    /\ calls = [r \in Reqs |-> <<>>]
    /\ replies = [r \in Reqs |-> <<>>]
    /\ resp = [r \in Reqs |-> NoResp]
    /\ sent = [r \in Reqs |-> 0]
    /\ caught = [r \in Reqs |-> NotCaught]
    /\ log = [r \in Reqs |-> <<>>]

\* ------------------------------------------------------ response and log
\* response.status(s).send(text) / response.send(object)
TextResponse(status, text) == [status |-> status, kind |-> "text", body |-> text]
JsonResponse(status, body) == [status |-> status, kind |-> "json", body |-> body]

\* logger.info(message) / logger.error(message, detail); the timestamp in
\* the info message is left out.
InfoLine(msg) == [level |-> "info", msg |-> msg, status |-> 0, detail |-> ""]
ErrorLine(msg, status, detail) ==
    [level |-> "error", msg |-> msg, status |-> status, detail |-> detail]

\* What the rest of a handler does once it stops awaiting: the lines it logs
\* and the response it writes, in its try block or, with err caught, in
\* handleError.
Outcome(lines, response) ==
    [lines |-> lines, resp |-> response, caught |-> NotCaught, writes |-> 1]
Handled(err, lines, response) ==
    [lines |-> lines, resp |-> response, caught |-> [thrown |-> TRUE, err |-> err],
     writes |-> 1]

\* JSON.stringify of an upstream error body
JsonStringify(data) == "\"" \o data \o "\""

\* ------------------------------------------------------------ handleError
\* handleError sending the upstream error body to the client.
handleErrorMovies_EchoBody(err) ==
    IF err.response.present
    THEN Handled(err, <<ErrorLine("API Error", err.response.status,
                                  JsonStringify(err.response.data))>>,
                 TextResponse(err.response.status, err.response.data))
    ELSE IF err.request.present
    THEN Handled(err, <<ErrorLine("No response received from API:", 0, err.request.obj)>>,
                 TextResponse(ServerError, "No response received from API."))
    ELSE Handled(err, <<ErrorLine("Error", 0, err.message)>>,
                 TextResponse(ServerError, "Internal Server Error."))

handleErrorMovies(err) ==
    IF err.response.present
    THEN Handled(err, <<ErrorLine("API Error", err.response.status,
                             JsonStringify(err.response.data))>>,
                 TextResponse(err.response.status, "Error fetching data from API."))
    ELSE IF err.request.present
    THEN Handled(err, <<ErrorLine("No response received from API:", 0, err.request.obj)>>,
                 TextResponse(ServerError, "No response received from API."))
    ELSE Handled(err, <<ErrorLine("Error", 0, err.message)>>,
                 TextResponse(ServerError, "Internal Server Error."))

handleErrorAnime(err) ==
    IF err.response.present
    THEN Handled(err, <<ErrorLine("API Error", err.response.status,
                             JsonStringify(err.response.data))>>,
                 TextResponse(err.response.status, "Error fetching data from API."))
    ELSE IF err.request.present
    THEN Handled(err, <<ErrorLine("No response received from API:", 0, err.request.obj)>>,
                 TextResponse(ServerError, "No response received from API."))
    ELSE Handled(err, <<ErrorLine("Error", 0, err.message)>>,
                 TextResponse(ServerError, "Internal Server Error."))

\* handleError with its first two tests in the other order.
handleErrorTv_RequestFirst(err) ==
    IF err.request.present
    THEN Handled(err, <<ErrorLine("No response received from API:", 0, err.request.obj)>>,
                 TextResponse(ServerError, "No response received from API."))
    ELSE IF err.response.present
    THEN Handled(err, <<ErrorLine("API Error", err.response.status,
                                  JsonStringify(err.response.data))>>,
                 TextResponse(err.response.status, "Error fetching data from API."))
    ELSE Handled(err, <<ErrorLine("Error", 0, err.message)>>,
                 TextResponse(ServerError, "Internal Server Error."))

handleErrorTv(err) ==
    IF err.response.present
    THEN Handled(err, <<ErrorLine("API Error", err.response.status,
                             JsonStringify(err.response.data))>>,
                 TextResponse(err.response.status, "Error fetching data from API."))
    ELSE IF err.request.present
    THEN Handled(err, <<ErrorLine("No response received from API:", 0, err.request.obj)>>,
                 TextResponse(ServerError, "No response received from API."))
    ELSE Handled(err, <<ErrorLine("Error", 0, err.message)>>,
                 TextResponse(ServerError, "Internal Server Error."))

\* ---------------------------------------------------------- handler steps
\* The handler of request r runs from its entry to its first await: it has
\* requested url and is suspended.
Suspend(r, q, url) ==
    /\ req' = [req EXCEPT ![r] = q]
    /\ calls' = [calls EXCEPT ![r] = Append(@, url)]
    /\ pc' = [pc EXCEPT ![r] = "await1"]
    /\ UNCHANGED <<replies, resp, sent, caught, log>>

\* The handler of request r answers before any await.
AnswerAtOnce(r, q, out) ==
    /\ req' = [req EXCEPT ![r] = q]
    /\ resp' = [resp EXCEPT ![r] = out.resp]
    /\ sent' = [sent EXCEPT ![r] = @ + out.writes]
    /\ caught' = [caught EXCEPT ![r] = out.caught]
    /\ log' = [log EXCEPT ![r] = @ \o out.lines]
    /\ pc' = [pc EXCEPT ![r] = "done"]
    /\ UNCHANGED <<calls, replies>>

\* A handler that requests the same URL once more when a call is rejected
\* for the first time.
Finish_RetryOnce(r, rep, out) ==
    IF ~rep.ok /\ \A i \in 1 .. Len(replies[r]) : replies[r][i].ok
    THEN /\ replies' = [replies EXCEPT ![r] = Append(@, rep)]
         /\ calls' = [calls EXCEPT ![r] = Append(@, calls[r][Len(calls[r])])]
         /\ UNCHANGED <<pc, req, resp, sent, caught, log>>
    ELSE /\ replies' = [replies EXCEPT ![r] = Append(@, rep)]
         /\ resp' = [resp EXCEPT ![r] = out.resp]
         /\ sent' = [sent EXCEPT ![r] = @ + out.writes]
         /\ caught' = [caught EXCEPT ![r] = out.caught]
         /\ log' = [log EXCEPT ![r] = @ \o out.lines]
         /\ pc' = [pc EXCEPT ![r] = "done"]
         /\ UNCHANGED <<req, calls>>

\* The awaited call of request r settles as rep and the handler runs to its
\* end: it logs out.lines and writes out.resp.
Finish(r, rep, out) ==
    /\ replies' = [replies EXCEPT ![r] = Append(@, rep)]
    /\ resp' = [resp EXCEPT ![r] = out.resp]
    /\ sent' = [sent EXCEPT ![r] = @ + out.writes]
    /\ caught' = [caught EXCEPT ![r] = out.caught]
    /\ log' = [log EXCEPT ![r] = @ \o out.lines]
    /\ pc' = [pc EXCEPT ![r] = "done"]
    /\ UNCHANGED <<req, calls>>

\* The awaited call of request r resolves as rep and the handler requests
\* url and suspends again at nextPc.
Resume(r, rep, url, nextPc) ==
    /\ replies' = [replies EXCEPT ![r] = Append(@, rep)]
    /\ calls' = [calls EXCEPT ![r] = Append(@, url)]
    /\ pc' = [pc EXCEPT ![r] = nextPc]
    /\ UNCHANGED <<req, resp, sent, caught, log>>

\* ---------------------------------------------------------- trending
AllowedValues == <<"week", "day">>

\* request.params.time_window as the router delivers it
TimeWindowParams == {Undef, Str("week"), Str("day"), Str("month"), Str("Week")}

\* allowedValues.includes(x)
Includes(items, x) == \E i \in 1 .. Len(items) : items[i] = x

InvalidTimeWindow(time_window) ==
    JsonResponse(BadRequest,
        [error |-> "Invalid time_window value: \"" \o time_window
                   \o "\". Allowed values are: " \o Join(AllowedValues, ", ")])

\* backdrop_path: x ? URLs.image + x : null
PrefixOrNull(x) == IF Truthy(x) THEN Concat(URLsImage, x) ELSE Null

\* {...item, backdrop_path: ..., poster_path: ...}
WithPrefixedPaths(item) ==
    [item EXCEPT !.backdrop_path = PrefixOrNull(item.backdrop_path),
                 !.poster_path = PrefixOrNull(item.poster_path)]

\* The trending URL with the default window in place of the requested one.
TrendingMoviesUrl_DefaultWindow(time_window) ==
    URLsTmdb \o "/trending/movie/" \o "week" \o "?language=en-US"

TrendingMoviesUrl(time_window) ==
    URLsTmdb \o "/trending/movie/" \o time_window \o "?language=en-US"

\* The handler keeping only the first ListCap results, as the capped routes do.
TrendingMoviesAfter_Capped(rep) ==
    IF ~rep.ok THEN handleErrorMovies(rep.err)
    ELSE IF rep.data.results.t # "arr" THEN handleErrorMovies(TypeErrorReading("map"))
    ELSE Outcome(<<InfoLine("Successfully fetched trending movies")>>,
                 JsonResponse(OkStatus,
                     Map(Slice(rep.data.results.items, ListCap), WithPrefixedPaths)))

TrendingMoviesAfter(rep) ==
    IF ~rep.ok THEN handleErrorMovies(rep.err)
    ELSE IF rep.data.results.t # "arr" THEN handleErrorMovies(TypeErrorReading("map"))
    ELSE Outcome(<<InfoLine("Successfully fetched trending movies")>>,
                 JsonResponse(OkStatus, Map(rep.data.results.items, WithPrefixedPaths)))

GetTrendingMovies(r, p, rep) ==
    \/ /\ pc[r] = "idle"
       /\ LET time_window == ToStr(OrElse(p, Str("week")))
              q == [Request("trendingMovies") EXCEPT !.time_window = p]
          IN  IF ~Includes(AllowedValues, time_window)
              THEN AnswerAtOnce(r, q, Outcome(<<>>, InvalidTimeWindow(time_window)))
              ELSE Suspend(r, q, TrendingMoviesUrl(time_window))
    \/ /\ pc[r] = "await1"
       /\ req[r].ep = "trendingMovies"
       /\ Finish(r, rep, TrendingMoviesAfter(rep))

\* ------------------------------------------- popular / upcoming movies
PopularMoviesUrl == URLsTmdb \o "/movie/popular?language=en-US&page=1"
UpcomingMoviesUrl == URLsTmdb \o "/movie/upcoming?language=en-US&page=1"

PopularMovieItem(movie) ==
    [id |-> movie.id, original_language |-> movie.original_language,
     original_title |-> movie.original_title, title |-> movie.title,
     overview |-> movie.overview,
     backdrop_path |-> Concat(URLsImage, movie.backdrop_path),
     poster_path |-> Concat(URLsImage, movie.poster_path),
     release_date |-> movie.release_date, vote_average |-> movie.vote_average]

UpcomingMovieItem(movie) ==
    [id |-> movie.id, original_language |-> movie.original_language,
     original_title |-> movie.original_title, overview |-> movie.overview,
     title |-> movie.title,
     backdrop_path |-> Concat(URLsImage, movie.backdrop_path),
     poster_path |-> Concat(URLsImage, movie.poster_path),
     release_date |-> movie.release_date, vote_average |-> movie.vote_average]

PopularMoviesAfter(rep) ==
    IF ~rep.ok THEN handleErrorMovies(rep.err)
    ELSE IF rep.data.results.t # "arr" THEN handleErrorMovies(TypeErrorReading("slice"))
    ELSE Outcome(<<InfoLine("Successfully fetched popular movies")>>,
                 JsonResponse(OkStatus,
                     Map(Slice(rep.data.results.items, ListCap), PopularMovieItem)))

UpcomingMoviesAfter(rep) ==
    IF ~rep.ok THEN handleErrorMovies(rep.err)
    ELSE IF rep.data.results.t # "arr" THEN handleErrorMovies(TypeErrorReading("slice"))
    ELSE Outcome(<<InfoLine("Successfully fetched upcoming movies")>>,
                 JsonResponse(OkStatus,
                     Map(Slice(rep.data.results.items, ListCap), UpcomingMovieItem)))

GetPopularMovies(r, rep) ==
    \/ /\ pc[r] = "idle"
       /\ Suspend(r, Request("popularMovies"), PopularMoviesUrl)
    \/ /\ pc[r] = "await1"
       /\ req[r].ep = "popularMovies"
       /\ Finish(r, rep, PopularMoviesAfter(rep))

GetUpcomingMovies(r, rep) ==
    \/ /\ pc[r] = "idle"
       /\ Suspend(r, Request("upcomingMovies"), UpcomingMoviesUrl)
    \/ /\ pc[r] = "await1"
       /\ req[r].ep = "upcomingMovies"
       /\ Finish(r, rep, UpcomingMoviesAfter(rep))

\* ------------------------------------------------------- search movies
\* request.query.query as the router delivers it
QueryParams == {Undef, Str("naruto"), Str("one piece")}

\* application/x-www-form-urlencoded serialisation of a value, on the
\* characters the model's queries use
FormEncode(s) == CASE s = "one piece" -> "one+piece"
                   [] OTHER -> s

\* new URLSearchParams({...fixedParams, query: query || ''}).toString()
SearchQueryString(query) ==
    "include_adult=false&language=en-US&page=1&query="
        \o FormEncode(ToStr(OrElse(query, Str(""))))

SearchMoviesUrl(query) == URLsTmdb \o "/search/movie?" \o SearchQueryString(query)

SearchMovieItem(movie) ==
    [id |-> movie.id, original_language |-> movie.original_language,
     original_title |-> movie.original_title, overview |-> movie.overview,
     title |-> movie.title,
     backdrop_path |-> Concat(URLsImage, movie.backdrop_path),
     poster_path |-> Concat(URLsImage, movie.poster_path),
     release_date |-> movie.release_date, vote_average |-> movie.vote_average]

SearchMoviesAfter(q, rep) ==
    IF ~rep.ok THEN handleErrorMovies(rep.err)
    ELSE IF rep.data.results.t # "arr" THEN handleErrorMovies(TypeErrorReading("slice"))
    ELSE Outcome(<<InfoLine("Successfully fetched movies for query \""
                            \o ToStr(q.query) \o "\"")>>,
                 JsonResponse(OkStatus,
                     Map(Slice(rep.data.results.items, ListCap), SearchMovieItem)))

GetSearchMovies(r, query, rep) ==
    \/ /\ pc[r] = "idle"
       /\ Suspend(r, [Request("searchMovies") EXCEPT !.query = query],
                  SearchMoviesUrl(query))
    \/ /\ pc[r] = "await1"
       /\ req[r].ep = "searchMovies"
       /\ Finish(r, rep, SearchMoviesAfter(req[r], rep))

\* ------------------------------------------------------- movie images
\* request.params.id
IdParams == {"1", "2"}

MovieImagesUrl(movieId) == URLsTmdb \o "/movie/" \o movieId \o "/images"

MovieImageItem(image) ==
    [aspect_ratio |-> image.aspect_ratio, height |-> image.height,
     width |-> image.width, file_path |-> Concat(URLsImage, image.file_path)]

\* arr?.slice(0, 30).map(...) || []
MovieImageList(arr) ==
    IF arr.t # "arr" THEN <<>> ELSE Map(Slice(arr.items, ImageCap), MovieImageItem)

MovieImagesAfter(q, rep) ==
    IF ~rep.ok THEN handleErrorMovies(rep.err)
    ELSE Outcome(<<InfoLine("Successfully fetched images for movie ID: \""
                            \o q.id \o "\"")>>,
                 JsonResponse(OkStatus,
                     [backdrops |-> MovieImageList(rep.data.backdrops),
                      posters |-> MovieImageList(rep.data.posters)]))

GetMovieImages(r, id, rep) ==
    \/ /\ pc[r] = "idle"
       /\ Suspend(r, [Request("imagesMovie") EXCEPT !.id = id], MovieImagesUrl(id))
    \/ /\ pc[r] = "await1"
       /\ req[r].ep = "imagesMovie"
       /\ Finish(r, rep, MovieImagesAfter(req[r], rep))

\* ---------------------------------------------------------- trending TV
TrendingTvUrl(time_window) ==
    URLsTmdb \o "/trending/tv/" \o time_window \o "?language=en-US"

\* The handler logging its success line before it maps the results.
TrendingTvAfter_LogsEarly(rep) ==
    IF ~rep.ok THEN handleErrorTv(rep.err)
    ELSE IF rep.data.results.t # "arr"
    THEN LET h == handleErrorTv(TypeErrorReading("map"))
         IN  [h EXCEPT !.lines = <<InfoLine("Successfully fetched trending TV shows")>> \o @]
    ELSE Outcome(<<InfoLine("Successfully fetched trending TV shows")>>,
                 JsonResponse(OkStatus, Map(rep.data.results.items, WithPrefixedPaths)))

TrendingTvAfter(rep) ==
    IF ~rep.ok THEN handleErrorTv(rep.err)
    ELSE IF rep.data.results.t # "arr" THEN handleErrorTv(TypeErrorReading("map"))
    ELSE Outcome(<<InfoLine("Successfully fetched trending TV shows")>>,
                 JsonResponse(OkStatus, Map(rep.data.results.items, WithPrefixedPaths)))

GetTrendingTv(r, p, rep) ==
    \/ /\ pc[r] = "idle"
       /\ LET time_window == ToStr(OrElse(p, Str("week")))
              q == [Request("trendingTv") EXCEPT !.time_window = p]
          IN  IF ~Includes(AllowedValues, time_window)
              THEN AnswerAtOnce(r, q, Outcome(<<>>, InvalidTimeWindow(time_window)))
              ELSE Suspend(r, q, TrendingTvUrl(time_window))
    \/ /\ pc[r] = "await1"
       /\ req[r].ep = "trendingTv"
       /\ Finish(r, rep, TrendingTvAfter(rep))

\* ----------------------------------------------------------- popular TV
\* request.query.page as the router delivers it
PageParams == {Undef, Str("abc")} \cup {Str(NatToStr(k)) : k \in 1 .. MaxPage}

\* const { page = 1 } = request.query
PageOrDefault(p) == IF p.t = "undef" THEN Num(DefaultPage) ELSE p

PopularTvUrl(page) ==
    URLsTmdb \o "/tv/top_rated?language=en-US&page=" \o ToStr(page)

PageOutOfRange(page, popularData) ==
    JsonResponse(NotFound,
        [pagination |->
            [current_page |-> page,
             last_visible_page |-> popularData.total_pages,
             has_next_page |-> FALSE,
             items |-> [total_pages |-> popularData.total_pages,
                        total_results |-> popularData.total_results]],
         results |-> <<>>,
         message |-> "No results found for the requested page."])

PopularTvPage(popularData) ==
    JsonResponse(OkStatus,
        [pagination |-> [current_page |-> popularData.page,
                         total_pages |-> popularData.total_pages,
                         total_results |-> popularData.total_results],
         popular_tv_shows |-> Map(popularData.results.items, WithPrefixedPaths)])

\* The handler without the return in front of its 404 answer: it goes on
\* past the answer and writes again.
PopularTvAfter_NoReturn(q, rep) ==
    LET page == PageOrDefault(q.page)
    IN  IF ~rep.ok THEN handleErrorTv(rep.err)
        ELSE IF JsGreater(page, Num(rep.data.total_pages))
        THEN [Outcome(<<>>, PageOutOfRange(page, rep.data)) EXCEPT !.writes = 2]
        ELSE IF rep.data.results.t # "arr" THEN handleErrorTv(TypeErrorReading("map"))
        ELSE Outcome(<<InfoLine("Successfully fetched popular TV shows")>>,
                     PopularTvPage(rep.data))

PopularTvAfter(q, rep) ==
    LET page == PageOrDefault(q.page)
    IN  IF ~rep.ok THEN handleErrorTv(rep.err)
        ELSE IF JsGreater(page, Num(rep.data.total_pages))
        THEN Outcome(<<>>, PageOutOfRange(page, rep.data))
        ELSE IF rep.data.results.t # "arr" THEN handleErrorTv(TypeErrorReading("map"))
        ELSE Outcome(<<InfoLine("Successfully fetched popular TV shows")>>,
                     PopularTvPage(rep.data))

GetPopularTv(r, p, rep) ==
    \/ /\ pc[r] = "idle"
       /\ Suspend(r, [Request("popularTv") EXCEPT !.page = p],
                  PopularTvUrl(PageOrDefault(p)))
    \/ /\ pc[r] = "await1"
       /\ req[r].ep = "popularTv"
       /\ rep \in PagedReplies(PageOrDefault(req[r].page))
       /\ Finish(r, rep, PopularTvAfter(req[r], rep))

\* ------------------------------------------------------------ search TV
SearchTvUrl(query) == URLsTmdb \o "/search/tv?" \o SearchQueryString(query)

SearchTvItem(tv) ==
    [id |-> tv.id, original_language |-> tv.original_language,
     original_name |-> tv.original_name, overview |-> tv.overview,
     name |-> tv.name,
     backdrop_path |-> Concat(URLsImage, tv.backdrop_path),
     poster_path |-> Concat(URLsImage, tv.poster_path),
     first_air_date |-> tv.first_air_date, vote_average |-> tv.vote_average]

SearchTvAfter(q, rep) ==
    IF ~rep.ok THEN handleErrorTv(rep.err)
    ELSE IF rep.data.results.t # "arr" THEN handleErrorTv(TypeErrorReading("slice"))
    ELSE Outcome(<<InfoLine("Successfully fetched TV shows for query \""
                            \o ToStr(q.query) \o "\"")>>,
                 JsonResponse(OkStatus,
                     Map(Slice(rep.data.results.items, ListCap), SearchTvItem)))

GetSearchTv(r, query, rep) ==
    \/ /\ pc[r] = "idle"
       /\ Suspend(r, [Request("searchTv") EXCEPT !.query = query], SearchTvUrl(query))
    \/ /\ pc[r] = "await1"
       /\ req[r].ep = "searchTv"
       /\ Finish(r, rep, SearchTvAfter(req[r], rep))

\* ------------------------------------------------------------ TV images
TvImagesUrl(tvId) == URLsTmdb \o "/tv/" \o tvId \o "/images"

TvImageItem(image) ==
    [aspect_ratio |-> image.aspect_ratio, height |-> image.height,
     width |-> image.width, file_path |-> Concat(URLsImage, image.file_path)]

\* arr?.slice(0, 30).map(...) || []
TvImageList(arr) ==
    IF arr.t # "arr" THEN <<>> ELSE Map(Slice(arr.items, ImageCap), TvImageItem)

TvImagesAfter(q, rep) ==
    IF ~rep.ok THEN handleErrorTv(rep.err)
    ELSE Outcome(<<InfoLine("Successfully fetched images for TV show ID: \""
                            \o q.id \o "\"")>>,
                 JsonResponse(OkStatus,
                     [backdrops |-> TvImageList(rep.data.backdrops),
                      posters |-> TvImageList(rep.data.posters)]))

GetTvImages(r, id, rep) ==
    \/ /\ pc[r] = "idle"
       /\ Suspend(r, [Request("imagesTv") EXCEPT !.id = id], TvImagesUrl(id))
    \/ /\ pc[r] = "await1"
       /\ req[r].ep = "imagesTv"
       /\ Finish(r, rep, TvImagesAfter(req[r], rep))

\* ------------------------------------------------------------ provider B
Named(i, prefix) == [mal_id |-> i, type |-> "anime", name |-> prefix \o NatToStr(i)]

\* trailer.images is present on some items and missing on others
TrailerImages(i) ==
    IF i % 2 = 1
    THEN [present |-> TRUE, maximum_image_url |-> Str("max" \o NatToStr(i))]
    ELSE [present |-> FALSE, maximum_image_url |-> Undef]

\* Provider B's anime item.
AnimeItem(i) ==
    [mal_id |-> i, url |-> "mal/" \o NatToStr(i),
     images |-> [jpg |-> [image_url |-> "jpg" \o NatToStr(i),
                          large_image_url |-> "jpgL" \o NatToStr(i)]],
     trailer |-> [youtube_id |-> "yt" \o NatToStr(i), url |-> "ytu" \o NatToStr(i),
                  embed_url |-> "yte" \o NatToStr(i), images |-> TrailerImages(i)],
     title |-> "t" \o NatToStr(i), title_japanese |-> "tj" \o NatToStr(i),
     title_english |-> "te" \o NatToStr(i),
     episodes |-> i, rating |-> "PG", type |-> "TV", source |-> "Manga",
     status |-> "Airing", score |-> i % 10, rank |-> i, popularity |-> i + 1,
     synopsis |-> "s" \o NatToStr(i), background |-> Str("b" \o NatToStr(i)),
     season |-> "fall", year |-> 2000 + i,
     genres |-> <<Named(i, "g"), Named(i + 1, "g")>>,
     themes |-> <<Named(i, "th")>>,
     demographics |-> IF i % 2 = 0 THEN <<Named(i, "d")>> ELSE <<>>,
     explicit_genres |-> <<>>,
     members |-> 100 * i]

\* Provider B's replies to a list call: {data: [...]} or a payload without data.
AnimeListReplies ==
    {Resolved([data |-> Arr(Items(AnimeItem, len))]) : len \in ListLens}
    \cup {Resolved([data |-> NoArr])} \cup Rejections

\* ------------------------------------------- trending / popular / upcoming
TrendingAnimeUrl == URLsJikan \o "/seasons/now"
PopularAnimeUrl == URLsJikan \o "/top/anime"
UpcomingAnimeUrl == URLsJikan \o "/seasons/upcoming"

\* anime.trailer.images?.maximum_image_url || null
MaximumImageOrNull(trailer) ==
    IF trailer.images.present THEN OrElse(trailer.images.maximum_image_url, Null)
    ELSE Null

NameOf(x) == x.name

\* The item has no property "backgroud": reading it gives undefined.
TrendingAnimeItem(anime) ==
    [mal_id |-> anime.mal_id, mal_url |-> anime.url,
     images |-> <<Str(anime.images.jpg.image_url), Str(anime.images.jpg.large_image_url),
                  MaximumImageOrNull(anime.trailer)>>,
     trailer |-> [yt_id |-> anime.trailer.youtube_id, yt_url |-> anime.trailer.url,
                  embed_url |-> anime.trailer.embed_url],
     titles |-> [default_title |-> anime.title, japanese_title |-> anime.title_japanese,
                 english_title |-> anime.title_english],
     episodes |-> anime.episodes, rating |-> anime.rating, type |-> anime.type,
     source |-> anime.source, status |-> anime.status, score |-> anime.score,
     rank |-> anime.rank, popularity |-> anime.popularity, synopsis |-> anime.synopsis,
     backgroud |-> Undef,
     season |-> anime.season, year |-> anime.year,
     genres |-> Map(anime.genres, NameOf), themes |-> Map(anime.themes, NameOf),
     demographics |-> Map(anime.demographics, NameOf),
     explicit_genres |-> Map(anime.explicit_genres, NameOf)]

PopularAnimeItem(anime) ==
    [mal_id |-> anime.mal_id, mal_url |-> anime.url,
     images |-> <<Str(anime.images.jpg.image_url), Str(anime.images.jpg.large_image_url),
                  MaximumImageOrNull(anime.trailer)>>,
     trailer |-> [yt_id |-> anime.trailer.youtube_id, yt_url |-> anime.trailer.url,
                  embed_url |-> anime.trailer.embed_url],
     titles |-> [default_title |-> anime.title, japanese_title |-> anime.title_japanese,
                 english_title |-> anime.title_english],
     episodes |-> anime.episodes, rating |-> anime.rating, type |-> anime.type,
     source |-> anime.source, status |-> anime.status, score |-> anime.score,
     rank |-> anime.rank, popularity |-> anime.popularity, synopsis |-> anime.synopsis,
     backgroud |-> Undef,
     season |-> anime.season, year |-> anime.year,
     genres |-> Map(anime.genres, NameOf), themes |-> Map(anime.themes, NameOf),
     demographics |-> Map(anime.demographics, NameOf),
     explicit_genres |-> Map(anime.explicit_genres, NameOf)]

UpcomingAnimeItem(anime) ==
    [mal_id |-> anime.mal_id, mal_url |-> anime.url,
     images |-> <<Str(anime.images.jpg.image_url), Str(anime.images.jpg.large_image_url),
                  MaximumImageOrNull(anime.trailer)>>,
     trailer |-> [yt_id |-> anime.trailer.youtube_id, yt_url |-> anime.trailer.url,
                  embed_url |-> anime.trailer.embed_url],
     titles |-> [default_title |-> anime.title, japanese_title |-> anime.title_japanese,
                 english_title |-> anime.title_english],
     episodes |-> anime.episodes, rating |-> anime.rating, type |-> anime.type,
     source |-> anime.source, status |-> anime.status, score |-> anime.score,
     rank |-> anime.rank, popularity |-> anime.popularity, synopsis |-> anime.synopsis,
     backgroud |-> Undef,
     season |-> anime.season, year |-> anime.year,
     genres |-> Map(anime.genres, NameOf), themes |-> Map(anime.themes, NameOf),
     demographics |-> Map(anime.demographics, NameOf),
     explicit_genres |-> Map(anime.explicit_genres, NameOf)]

TrendingAnimeAfter(rep) ==
    IF ~rep.ok THEN handleErrorAnime(rep.err)
    ELSE IF rep.data.data.t # "arr" THEN handleErrorAnime(TypeErrorReading("slice"))
    ELSE Outcome(<<InfoLine("Successfully fetched trending animes")>>,
                 JsonResponse(OkStatus,
                     Map(Slice(rep.data.data.items, ListCap), TrendingAnimeItem)))

PopularAnimeAfter(rep) ==
    IF ~rep.ok THEN handleErrorAnime(rep.err)
    ELSE IF rep.data.data.t # "arr" THEN handleErrorAnime(TypeErrorReading("slice"))
    ELSE Outcome(<<InfoLine("Successfully fetched popular animes")>>,
                 JsonResponse(OkStatus,
                     Map(Slice(rep.data.data.items, ListCap), PopularAnimeItem)))

UpcomingAnimeAfter(rep) ==
    IF ~rep.ok THEN handleErrorAnime(rep.err)
    ELSE IF rep.data.data.t # "arr" THEN handleErrorAnime(TypeErrorReading("slice"))
    ELSE Outcome(<<InfoLine("Successfully fetched upcoming animes")>>,
                 JsonResponse(OkStatus,
                     Map(Slice(rep.data.data.items, ListCap), UpcomingAnimeItem)))

GetTrendingAnime(r, rep) ==
    \/ /\ pc[r] = "idle"
       /\ Suspend(r, Request("trendingAnime"), TrendingAnimeUrl)
    \/ /\ pc[r] = "await1"
       /\ req[r].ep = "trendingAnime"
       /\ Finish(r, rep, TrendingAnimeAfter(rep))

GetPopularAnime(r, rep) ==
    \/ /\ pc[r] = "idle"
       /\ Suspend(r, Request("popularAnime"), PopularAnimeUrl)
    \/ /\ pc[r] = "await1"
       /\ req[r].ep = "popularAnime"
       /\ Finish(r, rep, PopularAnimeAfter(rep))

GetUpcomingAnime(r, rep) ==
    \/ /\ pc[r] = "idle"
       /\ Suspend(r, Request("upcomingAnime"), UpcomingAnimeUrl)
    \/ /\ pc[r] = "await1"
       /\ req[r].ep = "upcomingAnime"
       /\ Finish(r, rep, UpcomingAnimeAfter(rep))

\* -------------------------------------------------------- anime by id
\* Provider B's picture item.
PictureItem(i) ==
    [jpg |-> [image_url |-> "j" \o NatToStr(i), small_image_url |-> "js" \o NatToStr(i),
              large_image_url |-> "jl" \o NatToStr(i)],
     webp |-> [image_url |-> "w" \o NatToStr(i), small_image_url |-> "ws" \o NatToStr(i),
               large_image_url |-> "wl" \o NatToStr(i)]]

\* Provider B's replies to the three calls for anime id.
DetailData(id, title) == [data |-> [mal_id |-> id, title |-> title]]
PicturesData(len) == [data |-> Arr(Items(PictureItem, len))]
VideosData(id) == [data |-> [promo |-> <<"promo" \o id>>, episodes |-> <<>>]]

DetailReplies(id) ==
    {Resolved(DetailData(id, t)) : t \in {"titleA", "titleB"}} \cup Rejections

PicturesReplies ==
    {Resolved(PicturesData(len)) : len \in {0, 2}}
    \cup {Resolved([data |-> NoArr])} \cup Rejections

VideosReplies(id) == {Resolved(VideosData(id))} \cup Rejections

AnimeDetailUrl(animeId) == URLsJikan \o "/anime/" \o animeId
AnimePicturesUrl(animeId) == URLsJikan \o "/anime/" \o animeId \o "/pictures"
AnimeVideosUrl(animeId) == URLsJikan \o "/anime/" \o animeId \o "/videos"

\* The jpg entry with the small image in place of the large one.
JpgOf_SmallForLarge(image) ==
    [image_url |-> image.jpg.image_url, small_image_url |-> image.jpg.small_image_url,
     large_image_url |-> image.jpg.small_image_url]

JpgOf(image) ==
    [image_url |-> image.jpg.image_url, small_image_url |-> image.jpg.small_image_url,
     large_image_url |-> image.jpg.large_image_url]

WebpOf(image) ==
    [image_url |-> image.webp.image_url, small_image_url |-> image.webp.small_image_url,
     large_image_url |-> image.webp.large_image_url]

OrganizedImages(imagesData) ==
    [jpgs |-> Map(imagesData, JpgOf), webp |-> Map(imagesData, WebpOf)]

\* The pictures kept in a variable that all requests share: the handler
\* reads those of the latest request that has received its pictures.
AnimeByIdBody_SharedImages(searchAnime, searchImages, searchVideos) ==
    LET holders == {q \in Reqs : /\ req[q].ep = "animeById"
                                 /\ Len(replies[q]) >= 2
                                 /\ replies[q][2].ok
                                 /\ replies[q][2].data.data.t = "arr"}
        latest == CHOOSE q \in holders : \A o \in holders : q >= o
        shared == IF holders = {} THEN searchImages ELSE replies[latest][2]
    IN  [data |-> searchAnime.data.data,
         images_data |-> OrganizedImages(shared.data.data.items),
         videos |-> searchVideos.data.data]

\* searchAnimeData with images_data and videos assigned onto it
AnimeByIdBody(searchAnime, searchImages, searchVideos) ==
    [data |-> searchAnime.data.data,
     images_data |-> OrganizedImages(searchImages.data.data.items),
     videos |-> searchVideos.data.data]

\* The handler once its third call has settled; settled holds the outcomes
\* of the first two, both resolved.
AnimeByIdAfter(q, settled, rep) ==
    IF ~rep.ok THEN handleErrorAnime(rep.err)
    ELSE IF settled[2].data.data.t # "arr" THEN handleErrorAnime(TypeErrorReading("map"))
    ELSE Outcome(<<InfoLine("Successfully fetched anime for ID \"" \o q.id \o "\"")>>,
                 JsonResponse(OkStatus, AnimeByIdBody(settled[1], settled[2], rep)))

\* A handler that goes on to its next call whether or not the awaited one
\* was rejected.
AwaitThenCall_IgnoreRejection(r, rep, url, nextPc) == Resume(r, rep, url, nextPc)

\* await of a call that is followed by another call: a resolved call lets the
\* handler request url, a rejected one takes it to its catch.
AwaitThenCall(r, rep, url, nextPc) ==
    IF rep.ok THEN Resume(r, rep, url, nextPc)
    ELSE Finish(r, rep, handleErrorAnime(rep.err))

GetAnimeById(r, id, rep) ==
    \/ /\ pc[r] = "idle"
       /\ Suspend(r, [Request("animeById") EXCEPT !.id = id], AnimeDetailUrl(id))
    \/ /\ pc[r] = "await1"
       /\ req[r].ep = "animeById"
       /\ rep \in DetailReplies(req[r].id)
       /\ AwaitThenCall(r, rep, AnimePicturesUrl(req[r].id), "await2")
    \/ /\ pc[r] = "await2"
       /\ req[r].ep = "animeById"
       /\ rep \in PicturesReplies
       /\ AwaitThenCall(r, rep, AnimeVideosUrl(req[r].id), "await3")
    \/ /\ pc[r] = "await3"
       /\ req[r].ep = "animeById"
       /\ rep \in VideosReplies(req[r].id)
       /\ Finish(r, rep, AnimeByIdAfter(req[r], replies[r], rep))

\* ----------------------------------------------------- anime by query
\* request.query as the router delivers it: a list of name/value pairs
QueryObjects == {<<>>, <<<<"q", "naruto">>>>, <<<<"q", "one piece">>, <<"limit", "5">>>>}

PairString(pair) == pair[1] \o "=" \o FormEncode(pair[2])

\* new URLSearchParams(queryParams).toString()
QueryString(queryParams) == Join(Map(queryParams, PairString), "&")

SearchAnimeUrl(queryParams) ==
    IF QueryString(queryParams) # ""
    THEN URLsJikan \o "/anime?" \o QueryString(queryParams)
    ELSE URLsJikan \o "/anime"

\* Provider B's replies to a search: the body is passed on as it is.
SearchAnimeReplies ==
    {Resolved([data |-> Arr(Items(AnimeItem, len)), pagination |-> [has_next_page |-> FALSE]]) :
        len \in {0, 2}}
    \cup Rejections

\* `${queryParams}` of an object
SearchAnimeAfter(rep) ==
    IF ~rep.ok THEN handleErrorAnime(rep.err)
    ELSE Outcome(<<InfoLine("Successfully fetched anime for query(s) \"[object Object]\"")>>,
                 JsonResponse(OkStatus, rep.data))

GetSearchAnime(r, params, rep) ==
    \/ /\ pc[r] = "idle"
       /\ Suspend(r, [Request("searchAnime") EXCEPT !.params = params],
                  SearchAnimeUrl(params))
    \/ /\ pc[r] = "await1"
       /\ req[r].ep = "searchAnime"
       /\ Finish(r, rep, SearchAnimeAfter(rep))

\* ---------------------------------------------------------- specification
\* Every reply provider B can give to a call of the anime-by-id handler, and
\* provider A to the top-rated TV call; the handler's step takes the ones
\* that answer the call it is awaiting.
AnimeByIdReplies ==
    UNION {DetailReplies(id) \cup VideosReplies(id) : id \in IdParams} \cup PicturesReplies

AllPagedReplies == UNION {PagedReplies(PageOrDefault(p)) : p \in PageParams}

\* One client: its request goes through any route with any parameters, and
\* the providers answer with any of their replies.
Client == {1}

Next ==
    \/ \E r \in Client, p \in TimeWindowParams, rep \in MovieListReplies :
         GetTrendingMovies(r, p, rep)
    \/ \E r \in Client, rep \in MovieListReplies : GetPopularMovies(r, rep)
    \/ \E r \in Client, rep \in MovieListReplies : GetUpcomingMovies(r, rep)
    \/ \E r \in Client, query \in QueryParams, rep \in MovieListReplies :
         GetSearchMovies(r, query, rep)
    \/ \E r \in Client, id \in IdParams, rep \in ImagesReplies : GetMovieImages(r, id, rep)
    \/ \E r \in Client, rep \in AnimeListReplies : GetTrendingAnime(r, rep)
    \/ \E r \in Client, rep \in AnimeListReplies : GetPopularAnime(r, rep)
    \/ \E r \in Client, rep \in AnimeListReplies : GetUpcomingAnime(r, rep)
    \/ \E r \in Client, id \in IdParams, rep \in AnimeByIdReplies : GetAnimeById(r, id, rep)
    \/ \E r \in Client, params \in QueryObjects, rep \in SearchAnimeReplies :
         GetSearchAnime(r, params, rep)
    \/ \E r \in Client, p \in TimeWindowParams, rep \in TvListReplies :
         GetTrendingTv(r, p, rep)
    \/ \E r \in Client, p \in PageParams, rep \in AllPagedReplies : GetPopularTv(r, p, rep)
    \/ \E r \in Client, query \in QueryParams, rep \in TvListReplies :
         GetSearchTv(r, query, rep)
    \/ \E r \in Client, id \in IdParams, rep \in ImagesReplies : GetTvImages(r, id, rep)

Spec == Init /\ [][Next]_vars

\* NumReqs clients at once: their requests go through the paginated and the
\* three-call route, interleaved at the awaits, with a few of the parameters
\* and of the providers' replies.
FewRejections == {Rejected(UpstreamError(NotFound, b)) : b \in UpstreamBodies}

FewAnimeByIdReplies ==
    {Resolved(DetailData(id, "titleA")) : id \in IdParams}
    \cup {Resolved(PicturesData(len)) : len \in {0, 2}}
    \cup {Resolved(VideosData(id)) : id \in IdParams}
    \cup FewRejections

FewPageParams == {Undef, Str(NatToStr(MaxPage))}

FewPagedReplies ==
    {Resolved(PagedData(PageOrDefault(p), Arr(Items(TvItem, 2)), tp)) :
        p \in FewPageParams, tp \in TotalPages}
    \cup FewRejections

ConcNext ==
    \/ \E r \in Reqs, id \in IdParams, rep \in FewAnimeByIdReplies : GetAnimeById(r, id, rep)
    \/ \E r \in Reqs, p \in FewPageParams, rep \in FewPagedReplies : GetPopularTv(r, p, rep)

ConcSpec == Init /\ [][ConcNext]_vars

\* Two runs of the gateway side by side, each of one request that fails:
\* the providers reject the call or resolve it with a payload the handler
\* cannot map.
Runs == {1, 2}

FailingMovieReplies == {Resolved([results |-> NoArr])} \cup Rejections
FailingTvReplies == {Resolved([results |-> NoArr])} \cup Rejections
FailingAnimeByIdReplies ==
    {Resolved(DetailData(id, "titleA")) : id \in IdParams}
    \cup {Resolved(PicturesData(2)), Resolved([data |-> NoArr])}
    \cup {Resolved(VideosData(id)) : id \in IdParams}
    \cup Rejections

PairNext ==
    \/ \E r \in Runs, p \in TimeWindowParams, rep \in FailingMovieReplies :
         GetTrendingMovies(r, p, rep)
    \/ \E r \in Runs, rep \in FailingMovieReplies : GetPopularMovies(r, rep)
    \/ \E r \in Runs, query \in QueryParams, rep \in FailingTvReplies :
         GetSearchTv(r, query, rep)
    \/ \E r \in Runs, id \in IdParams, rep \in FailingAnimeByIdReplies :
         GetAnimeById(r, id, rep)

PairSpec == Init /\ [][PairNext]_vars

\* ================================================================ claims
LastReply(r) == replies[r][Len(replies[r])]
Succeeded(r) == pc[r] = "done" /\ resp[r].status = OkStatus
Branch(err) == IF err.response.present THEN "upstream"
               ELSE IF err.request.present THEN "noReply" ELSE "local"

\* ---------------------------------------------------------------------- C1
\* C1: every failure a handler catches goes through exactly one branch of
\* handleError, the first that applies in the order upstream response, request
\* without reply, local exception: the client gets the upstream status (or 500
\* in the last two) with that branch's fixed text, one error line is logged,
\* and the movie, anime and TV copies do the same.  A rejected call is always
\* caught.
C1_ErrorClassification ==
    \A r \in Reqs :
        /\ (pc[r] = "done" /\ Len(replies[r]) > 0 /\ ~LastReply(r).ok)
              => caught[r] = [thrown |-> TRUE, err |-> LastReply(r).err]
        /\ caught[r].thrown =>
              LET err == caught[r].err
              IN  /\ pc[r] = "done"
                  /\ sent[r] = 1
                  /\ Len(log[r]) = 1
                  /\ log[r][1].level = "error"
                  /\ Branch(err) = "upstream" =>
                        /\ resp[r] = TextResponse(err.response.status,
                                                  "Error fetching data from API.")
                        /\ log[r][1].msg = "API Error"
                  /\ Branch(err) = "noReply" =>
                        /\ resp[r] = TextResponse(ServerError,
                                                  "No response received from API.")
                        /\ log[r][1].msg = "No response received from API:"
                  /\ Branch(err) = "local" =>
                        /\ resp[r] = TextResponse(ServerError, "Internal Server Error.")
                        /\ log[r][1].msg = "Error"

\* A TV request whose upstream call was answered 404: the error carries both
\* the response and the request, and the client got 404 with the fixed text.
C1_Witness ==
    \E r \in Reqs :
        /\ req[r].ep = "searchTv"
        /\ caught[r].thrown
        /\ caught[r].err.response.present
        /\ caught[r].err.request.present
        /\ caught[r].err.response.status = NotFound
        /\ resp[r] = TextResponse(NotFound, "Error fetching data from API.")

\* ---------------------------------------------------------------------- C2
TrendingRoutes == {"trendingMovies", "trendingTv"}
TrendingPath(ep) == IF ep = "trendingMovies" THEN "/trending/movie/" ELSE "/trending/tv/"
WindowOf(q) == IF q.time_window.t = "undef" THEN "week" ELSE q.time_window.s

\* C2: a trending request whose time_window (week when absent) is week or day
\* makes exactly one upstream call, to the trending endpoint of that window;
\* with any other value it never makes a call and is answered 400 with a JSON
\* error naming the value and the allowed values.
C2_TrendingValidation ==
    \A r \in Reqs :
        req[r].ep \in TrendingRoutes =>
            IF WindowOf(req[r]) \in {"week", "day"}
            THEN /\ calls[r] = <<URLsTmdb \o TrendingPath(req[r].ep)
                                   \o WindowOf(req[r]) \o "?language=en-US">>
                 /\ resp[r].status # BadRequest
            ELSE /\ calls[r] = <<>>
                 /\ replies[r] = <<>>
                 /\ pc[r] = "done"
                 /\ resp[r] = JsonResponse(BadRequest,
                        [error |-> "Invalid time_window value: \"" \o WindowOf(req[r])
                                   \o "\". Allowed values are: week, day"])

\* A trending-movies request for "day" that was answered after one call to
\* the day endpoint.
C2_Witness ==
    \E r \in Reqs :
        /\ req[r].ep = "trendingMovies"
        /\ req[r].time_window = Str("day")
        /\ Succeeded(r)
        /\ calls[r] = <<URLsTmdb \o "/trending/movie/day?language=en-US">>

\* ---------------------------------------------------------------------- C3
\* The top-rated call of request r resolved with a payload that has a
\* results list.
PopularTvResolved(r) ==
    /\ req[r].ep = "popularTv"
    /\ pc[r] = "done"
    /\ LastReply(r).ok
    /\ LastReply(r).data.results.t = "arr"

RequestedPage(r) == ToNumber(PageOrDefault(req[r].page))

\* C3 as stated: a page above total_pages gives 404 with results: [], an empty
\* items list and the upstream totals; a page up to total_pages gives 200 with
\* {pagination: {current_page, total_pages, total_results}, popular_tv_shows}.
C3_OutOfRangeItemsEmpty ==
    \A r \in Reqs :
        PopularTvResolved(r) /\ RequestedPage(r).t = "num" =>
            LET d == LastReply(r).data
            IN  IF RequestedPage(r).n > d.total_pages
                THEN /\ resp[r].status = NotFound
                     /\ resp[r].body.results = <<>>
                     /\ resp[r].body.pagination.items = <<>>
                     /\ resp[r].body.pagination.last_visible_page = d.total_pages
                ELSE /\ resp[r].status = OkStatus
                     /\ resp[r].body.pagination =
                            [current_page |-> d.page, total_pages |-> d.total_pages,
                             total_results |-> d.total_results]

\* C3, amended: a page above total_pages gives 404 with results: [] and a
\* pagination envelope whose items object holds the upstream total_pages and
\* total_results (it is not an empty list); a page up to total_pages gives 200
\* with the upstream envelope and the whole upstream list.
C3_PopularTvPagination ==
    \A r \in Reqs :
        PopularTvResolved(r) /\ RequestedPage(r).t = "num" =>
            LET d == LastReply(r).data
            IN  IF RequestedPage(r).n > d.total_pages
                THEN /\ resp[r].status = NotFound
                     /\ resp[r].kind = "json"
                     /\ resp[r].body.results = <<>>
                     /\ resp[r].body.pagination.items =
                            [total_pages |-> d.total_pages,
                             total_results |-> d.total_results]
                     /\ resp[r].body.pagination.last_visible_page = d.total_pages
                     /\ resp[r].body.pagination.current_page = PageOrDefault(req[r].page)
                     /\ resp[r].body.pagination.has_next_page = FALSE
                ELSE /\ resp[r].status = OkStatus
                     /\ resp[r].kind = "json"
                     /\ resp[r].body.pagination =
                            [current_page |-> d.page, total_pages |-> d.total_pages,
                             total_results |-> d.total_results]
                     /\ Len(resp[r].body.popular_tv_shows) = Len(d.results.items)

\* A request for the last page asked for, past the provider's two pages,
\* answered 404.
C3_Witness ==
    \E r \in Reqs :
        /\ PopularTvResolved(r)
        /\ req[r].page = Str(NatToStr(MaxPage))
        /\ LastReply(r).data.total_pages = 2
        /\ resp[r].status = NotFound

\* ---------------------------------------------------------------------- C4
\* The image field out is what the claim allows for the upstream path raw:
\* null for a null or absent path, the prefixed path for a non-empty one.
ImageFieldOk(raw, out) ==
    IF raw.t \in {"null", "undef"} THEN out = Null
    ELSE IF raw.s # "" THEN out = Str(URLsImage \o raw.s)
    ELSE out \in {Null, Str(URLsImage)}

PathsOk(up, out) ==
    \A i \in 1 .. Len(out) :
        /\ ImageFieldOk(up[i].backdrop_path, out[i].backdrop_path)
        /\ ImageFieldOk(up[i].poster_path, out[i].poster_path)

FilePathsOk(arr, out) ==
    \A i \in 1 .. Len(out) : ImageFieldOk(arr.items[i].file_path, out[i].file_path)

\* C4: in every successful movie or TV response every image field is null
\* or image_base followed by the upstream path, and a null or absent upstream
\* path gives null.
C4_ImageFieldsNullOrPrefixed ==
    \A r \in Reqs :
        Succeeded(r) =>
            CASE req[r].ep \in {"trendingMovies", "popularMovies", "upcomingMovies",
                                "searchMovies", "trendingTv", "searchTv"}
                   -> PathsOk(LastReply(r).data.results.items, resp[r].body)
              [] req[r].ep = "popularTv"
                   -> PathsOk(LastReply(r).data.results.items, resp[r].body.popular_tv_shows)
              [] req[r].ep \in {"imagesMovie", "imagesTv"}
                   -> /\ FilePathsOk(LastReply(r).data.backdrops, resp[r].body.backdrops)
                      /\ FilePathsOk(LastReply(r).data.posters, resp[r].body.posters)
              [] OTHER -> TRUE

\* ---------------------------------------------------------------------- C5
CappedRoutes == {"popularMovies", "upcomingMovies", "searchMovies", "searchTv",
                 "trendingAnime", "popularAnime", "upcomingAnime"}
AnimeRoutes == {"trendingAnime", "popularAnime", "upcomingAnime"}
MinOf(a, b) == IF a < b THEN a ELSE b

\* out is the first min(Len(up), cap) image items of arr, or empty when arr
\* is missing.
FirstImages(arr, out, cap) ==
    IF arr.t # "arr" THEN out = <<>>
    ELSE /\ Len(out) = MinOf(Len(arr.items), cap)
         /\ \A i \in 1 .. Len(out) :
                /\ out[i].aspect_ratio = arr.items[i].aspect_ratio
                /\ out[i].height = arr.items[i].height
                /\ out[i].width = arr.items[i].width

\* C5: a capped route returns the first min(upstream count, cap) upstream
\* items in upstream order (cap 20 for the lists, 30 for backdrops and for
\* posters), and a missing backdrops or posters array gives the empty list.
C5_CappedLists ==
    \A r \in Reqs :
        Succeeded(r) =>
            CASE req[r].ep \in CappedRoutes \ AnimeRoutes ->
                    LET up == LastReply(r).data.results.items
                    IN  /\ Len(resp[r].body) = MinOf(Len(up), ListCap)
                        /\ \A i \in 1 .. Len(resp[r].body) : resp[r].body[i].id = up[i].id
              [] req[r].ep \in AnimeRoutes ->
                    LET up == LastReply(r).data.data.items
                    IN  /\ Len(resp[r].body) = MinOf(Len(up), ListCap)
                        /\ \A i \in 1 .. Len(resp[r].body) :
                               resp[r].body[i].mal_id = up[i].mal_id
              [] req[r].ep \in {"imagesMovie", "imagesTv"} ->
                    /\ FirstImages(LastReply(r).data.backdrops, resp[r].body.backdrops,
                                   ImageCap)
                    /\ FirstImages(LastReply(r).data.posters, resp[r].body.posters, ImageCap)
              [] OTHER -> TRUE

\* A movie-images response for a payload without backdrops and with more
\* posters than the cap: no backdrops, ImageCap posters.
C5_Witness ==
    \E r \in Reqs :
        /\ req[r].ep = "imagesMovie"
        /\ Succeeded(r)
        /\ LastReply(r).data.backdrops = NoArr
        /\ Len(LastReply(r).data.posters.items) > ImageCap
        /\ resp[r].body.backdrops = <<>>
        /\ Len(resp[r].body.posters) = ImageCap

\* ---------------------------------------------------------------------- C6
AnimeByIdCalls(id) ==
    <<URLsJikan \o "/anime/" \o id,
      URLsJikan \o "/anime/" \o id \o "/pictures",
      URLsJikan \o "/anime/" \o id \o "/videos">>

\* C6: anime-by-id requests detail, pictures, videos in that order, each only
\* after the one before has resolved and never two at once; a rejected call
\* is the request's last, the request is answered by handleError, and a
\* success body is only written after all three have resolved.
C6_AnimeByIdSequential ==
    \A r \in Reqs :
        req[r].ep = "animeById" =>
            /\ Len(calls[r]) <= 3
            /\ calls[r] = SubSeq(AnimeByIdCalls(req[r].id), 1, Len(calls[r]))
            /\ Len(calls[r]) = Len(replies[r]) + (IF pc[r] = "done" THEN 0 ELSE 1)
            /\ \A i \in 1 .. Len(replies[r]) :
                   ~replies[r][i].ok =>
                       /\ i = Len(replies[r])
                       /\ pc[r] = "done"
                       /\ caught[r] = [thrown |-> TRUE, err |-> replies[r][i].err]
                       /\ resp[r].kind = "text"
                       /\ resp[r].status >= BadRequest
            /\ resp[r].kind = "json" =>
                   /\ Len(replies[r]) = 3
                   /\ \A i \in 1 .. 3 : replies[r][i].ok
                   /\ DOMAIN resp[r].body = {"data", "images_data", "videos"}

\* An anime-by-id request whose pictures call was rejected after the detail
\* call resolved: two calls made, the videos call never requested.
C6_Witness ==
    \E r \in Reqs :
        /\ req[r].ep = "animeById"
        /\ pc[r] = "done"
        /\ Len(replies[r]) = 2
        /\ replies[r][1].ok
        /\ ~replies[r][2].ok
        /\ Len(calls[r]) = 2
        /\ caught[r].thrown

\* ---------------------------------------------------------------------- C7
PlannedCalls(ep) == IF ep = "animeById" THEN 3 ELSE 1

\* C7: a request makes at most one upstream call per call site (one, or three
\* for anime-by-id) and never the same call twice; once a call of the request
\* has been rejected the request makes no further call and is answered with
\* an error.
C7_NoRetries ==
    \A r \in Reqs :
        /\ Len(calls[r]) <= PlannedCalls(req[r].ep)
        /\ \A i, j \in 1 .. Len(calls[r]) : i # j => calls[r][i] # calls[r][j]
        /\ (\E i \in 1 .. Len(replies[r]) : ~replies[r][i].ok) =>
               /\ ~LastReply(r).ok
               /\ \A i \in 1 .. Len(replies[r]) - 1 : replies[r][i].ok
               /\ Len(calls[r]) = Len(replies[r])
               /\ pc[r] = "done"
               /\ caught[r].thrown
               /\ resp[r].kind = "text"
               /\ resp[r].status >= BadRequest

\* A movie search whose only call got no reply: one call, answered 500.
C7_Witness ==
    \E r \in Reqs :
        /\ req[r].ep = "searchMovies"
        /\ pc[r] = "done"
        /\ Len(calls[r]) = 1
        /\ ~LastReply(r).ok
        /\ Branch(LastReply(r).err) = "noReply"
        /\ resp[r].status = ServerError

\* ---------------------------------------------------------------------- C8
\* C8: the response to a failure depends only on the branch of handleError
\* taken and, in the upstream branch, on the upstream status: two failures of
\* the same branch (and status) get the same response whatever the upstream
\* error bodies, exception messages or failed-request objects, and none of
\* these is the body sent.
C8_FailureResponseGeneric ==
    \A r1, r2 \in Runs :
        (caught[r1].thrown /\ caught[r2].thrown) =>
            LET e1 == caught[r1].err
                e2 == caught[r2].err
            IN  /\ resp[r1].body \notin {e1.response.data, JsonStringify(e1.response.data),
                                         e1.message, e1.request.obj}
                /\ (/\ Branch(e1) = Branch(e2)
                    /\ Branch(e1) = "upstream" => e1.response.status = e2.response.status)
                      => resp[r1] = resp[r2]

\* Two runs answered 404 by the provider with different error bodies, and
\* two different requests: the clients got the same response.
C8_Witness ==
    /\ caught[1].thrown
    /\ caught[2].thrown
    /\ req[1].ep # req[2].ep
    /\ Branch(caught[1].err) = "upstream"
    /\ Branch(caught[2].err) = "upstream"
    /\ caught[1].err.response.status = caught[2].err.response.status
    /\ caught[1].err.response.data # caught[2].err.response.data
    /\ resp[1] = resp[2]

\* ---------------------------------------------------------------------- C9
\* The response of request r is the one its own parameters and the replies
\* to its own calls give.
OwnFailure(r) ==
    /\ ~LastReply(r).ok
    /\ caught[r].err = LastReply(r).err
    /\ resp[r].kind = "text"
    /\ resp[r].status = IF LastReply(r).err.response.present
                        THEN LastReply(r).err.response.status ELSE ServerError

OwnAnimeById(r) ==
    /\ calls[r] = SubSeq(AnimeByIdCalls(req[r].id), 1, Len(calls[r]))
    /\ IF caught[r].thrown THEN OwnFailure(r)
       ELSE LET pictures == replies[r][2].data.data.items
                body == resp[r].body
            IN  /\ body.data = replies[r][1].data.data
                /\ body.data.mal_id = req[r].id
                /\ body.videos = replies[r][3].data.data
                /\ Len(body.images_data.jpgs) = Len(pictures)
                /\ Len(body.images_data.webp) = Len(pictures)
                /\ \A i \in 1 .. Len(pictures) :
                       /\ body.images_data.jpgs[i].image_url = pictures[i].jpg.image_url
                       /\ body.images_data.webp[i].image_url = pictures[i].webp.image_url

OwnPopularTv(r) ==
    /\ calls[r] = <<URLsTmdb \o "/tv/top_rated?language=en-US&page="
                      \o ToStr(PageOrDefault(req[r].page))>>
    /\ IF caught[r].thrown THEN OwnFailure(r)
       ELSE LET d == LastReply(r).data
            IN  IF resp[r].status = NotFound
                THEN /\ resp[r].body.pagination.current_page = PageOrDefault(req[r].page)
                     /\ resp[r].body.pagination.items.total_pages = d.total_pages
                     /\ resp[r].body.pagination.items.total_results = d.total_results
                ELSE /\ resp[r].body.pagination.current_page = d.page
                     /\ resp[r].body.pagination.total_pages = d.total_pages
                     /\ resp[r].body.pagination.total_results = d.total_results
                     /\ Len(resp[r].body.popular_tv_shows) = Len(d.results.items)

\* C9: however concurrent requests interleave at their awaits, each response
\* is built from that request's own parameters and the replies to its own
\* calls, and two requests with the same parameters and replies get the same
\* response; this holds of anime-by-id, which attaches images_data and videos
\* to its detail payload.
C9_ResponseFromOwnData ==
    /\ \A r \in Reqs :
           pc[r] = "done" =>
               CASE req[r].ep = "animeById" -> OwnAnimeById(r)
                 [] req[r].ep = "popularTv" -> OwnPopularTv(r)
                 [] OTHER -> TRUE
    /\ \A r1, r2 \in Reqs :
           (/\ pc[r1] = "done"
            /\ pc[r2] = "done"
            /\ req[r1] = req[r2]
            /\ Len(replies[r1]) = Len(replies[r2])
            /\ \A i \in 1 .. Len(replies[r1]) : replies[r1][i] = replies[r2][i])
              => /\ resp[r1].status = resp[r2].status
                 /\ resp[r1].body = resp[r2].body

\* Request 1 is answered with its own two pictures while request 2, for
\* another id, has received an empty pictures list and awaits its videos.
C9_Witness ==
    /\ req[1].ep = "animeById"
    /\ req[2].ep = "animeById"
    /\ req[1].id # req[2].id
    /\ Succeeded(1)
    /\ pc[2] = "await3"
    /\ Len(replies[2][2].data.data.items) = 0
    /\ Len(resp[1].body.images_data.jpgs) = 2

\* --------------------------------------------------------------------- C10
\* C10: a request that succeeds has logged exactly one line, an info line; a
\* request whose failure went through handleError has logged exactly one
\* line, an error line; no line is logged before the outcome is known, and
\* the 400 and 404 answers, which are neither, log nothing.
C10_LoggingFollowsOutcome ==
    \A r \in Reqs :
        /\ pc[r] # "done" => log[r] = <<>>
        /\ (pc[r] = "done" /\ ~Succeeded(r) /\ ~caught[r].thrown) =>
               /\ resp[r].status \in {BadRequest, NotFound}
               /\ log[r] = <<>>
        /\ Succeeded(r) =>
               /\ ~caught[r].thrown
               /\ Len(log[r]) = 1
               /\ log[r][1].level = "info"
        /\ caught[r].thrown =>
               /\ ~Succeeded(r)
               /\ Len(log[r]) = 1
               /\ log[r][1].level = "error"

\* A trending-TV request whose payload had no results: the local exception
\* was logged as one error line, and no info line.
C10_Witness ==
    \E r \in Reqs :
        /\ req[r].ep = "trendingTv"
        /\ caught[r].thrown
        /\ Branch(caught[r].err) = "local"
        /\ log[r] = <<ErrorLine("Error", 0, caught[r].err.message)>>

\* --------------------------------------------------------------------- C11
\* out is the upstream item up with nothing changed but its two image paths.
SameButPaths(up, out) ==
    [out EXCEPT !.backdrop_path = Null, !.poster_path = Null]
        = [up EXCEPT !.backdrop_path = Null, !.poster_path = Null]

\* The image field out of a trending item whose upstream path is raw: null
\* stays null, a path is prefixed.
TrendingPathOk(raw, out) ==
    /\ raw = Null => out = Null
    /\ (raw.t = "str" /\ raw.s # "") => out = Str(URLsImage \o raw.s)
    /\ out = Null \/ (raw.t = "str" /\ out = Str(URLsImage \o raw.s))

\* C11: a trending-movies or trending-TV response is the whole upstream list,
\* same length and order, every field of every item as upstream except
\* backdrop_path and poster_path, which are null for a null path and the
\* prefixed path for a path.
C11_TrendingPassThrough ==
    \A r \in Reqs :
        (Succeeded(r) /\ req[r].ep \in TrendingRoutes) =>
            LET up == LastReply(r).data.results.items
                out == resp[r].body
            IN  /\ Len(out) = Len(up)
                /\ \A i \in 1 .. Len(out) :
                       /\ SameButPaths(up[i], out[i])
                       /\ TrendingPathOk(up[i].backdrop_path, out[i].backdrop_path)
                       /\ TrendingPathOk(up[i].poster_path, out[i].poster_path)

\* A trending-movies response longer than the list cap, whose first item has
\* its backdrop prefixed and whose second keeps a null backdrop.
C11_Witness ==
    \E r \in Reqs :
        /\ req[r].ep = "trendingMovies"
        /\ Succeeded(r)
        /\ Len(resp[r].body) > ListCap
        /\ LastReply(r).data.results.items[2].backdrop_path = Null
        /\ resp[r].body[2].backdrop_path = Null
        /\ resp[r].body[1].backdrop_path.t = "str"
        /\ resp[r].body[1].backdrop_path.s
               = URLsImage \o LastReply(r).data.results.items[1].backdrop_path.s

\* --------------------------------------------------------------------- C12
\* All three calls of the anime-by-id request r have resolved.
AllThreeResolved(r) ==
    /\ req[r].ep = "animeById"
    /\ pc[r] = "done"
    /\ Len(replies[r]) = 3
    /\ \A i \in 1 .. 3 : replies[r][i].ok

\* body is the detail payload with images_data and videos attached: the
\* detail fields as upstream, the videos payload, and jpgs and webp built
\* picture by picture.
MergedBody(detail, pictures, videos, body) ==
    /\ body.data = detail.data
    /\ body.videos = videos.data
    /\ Len(body.images_data.jpgs) = Len(pictures)
    /\ Len(body.images_data.webp) = Len(pictures)
    /\ \A i \in 1 .. Len(pictures) :
           /\ body.images_data.jpgs[i] =
                  [image_url |-> pictures[i].jpg.image_url,
                   small_image_url |-> pictures[i].jpg.small_image_url,
                   large_image_url |-> pictures[i].jpg.large_image_url]
           /\ body.images_data.webp[i] =
                  [image_url |-> pictures[i].webp.image_url,
                   small_image_url |-> pictures[i].webp.small_image_url,
                   large_image_url |-> pictures[i].webp.large_image_url]

\* C12 as stated: whenever all three calls resolve, the response is the
\* merged body.
C12_MergeWheneverResolved ==
    \A r \in Reqs :
        AllThreeResolved(r) =>
            /\ resp[r].status = OkStatus
            /\ resp[r].kind = "json"
            /\ MergedBody(replies[r][1].data, replies[r][2].data.data.items,
                          replies[r][3].data, resp[r].body)

\* C12, amended: when all three calls resolve and the pictures payload holds
\* a list, the response is the merged body; when the pictures payload holds
\* no list, the request is answered 500 by handleError's last branch.
C12_AnimeByIdMerge ==
    \A r \in Reqs :
        AllThreeResolved(r) =>
            IF replies[r][2].data.data.t = "arr"
            THEN /\ resp[r].status = OkStatus
                 /\ resp[r].kind = "json"
                 /\ MergedBody(replies[r][1].data, replies[r][2].data.data.items,
                               replies[r][3].data, resp[r].body)
            ELSE /\ resp[r] = TextResponse(ServerError, "Internal Server Error.")
                 /\ caught[r].thrown
                 /\ Branch(caught[r].err) = "local"

\* An anime-by-id request whose three calls resolved, the pictures call with
\* two pictures: the response carries two jpgs and two webp entries.
C12_Witness ==
    \E r \in Reqs :
        /\ AllThreeResolved(r)
        /\ replies[r][2].data.data.t = "arr"
        /\ Len(replies[r][2].data.data.items) = 2
        /\ resp[r].status = OkStatus
        /\ Len(resp[r].body.images_data.jpgs) = 2
        /\ resp[r].body.images_data.webp[2].large_image_url = "wl2"

\* --------------------------------------------------------------------- C13
\* Reading property name of the object rec: undefined when it has none.
Field(rec, name) == IF name \in DOMAIN rec THEN rec[name] ELSE Undef

\* out carries the listed scalar fields of the upstream item anime and the
\* names of its four genre-like lists.
ProjectedFrom(anime, out) ==
    /\ out.episodes = anime.episodes
    /\ out.rating = anime.rating
    /\ out.type = anime.type
    /\ out.source = anime.source
    /\ out.status = anime.status
    /\ out.score = anime.score
    /\ out.rank = anime.rank
    /\ out.popularity = anime.popularity
    /\ out.synopsis = anime.synopsis
    /\ out.season = anime.season
    /\ out.year = anime.year
    /\ out.genres = [i \in 1 .. Len(anime.genres) |-> anime.genres[i].name]
    /\ out.themes = [i \in 1 .. Len(anime.themes) |-> anime.themes[i].name]
    /\ out.demographics = [i \in 1 .. Len(anime.demographics) |-> anime.demographics[i].name]
    /\ out.explicit_genres
           = [i \in 1 .. Len(anime.explicit_genres) |-> anime.explicit_genres[i].name]
    /\ Field(out, "background") = anime.background

\* C13: the trending, popular and upcoming anime routes map an upstream item
\* to the same projected item, whose scalar fields, background among them,
\* carry the upstream values and whose genre-like lists are the upstream
\* names in order.
C13_AnimeMappingIdentical ==
    \A r \in Reqs :
        (Succeeded(r) /\ req[r].ep \in AnimeRoutes) =>
            LET up == LastReply(r).data.data.items
            IN  \A i \in 1 .. Len(resp[r].body) :
                    /\ resp[r].body[i] = TrendingAnimeItem(up[i])
                    /\ resp[r].body[i] = PopularAnimeItem(up[i])
                    /\ resp[r].body[i] = UpcomingAnimeItem(up[i])
                    /\ ProjectedFrom(up[i], resp[r].body[i])

\* --------------------------------------------------------------------- C14
\* Every call request r has issued has settled.
AllSettled(r) == Len(calls[r]) > 0 /\ Len(replies[r]) = Len(calls[r])

\* C14: a request gets exactly one response: nothing is written while a call
\* is awaited or before the request arrives, a handler that has ended (by
\* the 400 validation answer, the 404 out-of-range answer, a success or a
\* branch of handleError) has written exactly once, a handler whose calls
\* have all settled has ended, and a success body never comes with a pass
\* through handleError.
C14_ExactlyOneResponse ==
    \A r \in Reqs :
        /\ sent[r] <= 1
        /\ pc[r] # "done" => (sent[r] = 0 /\ resp[r] = NoResp)
        /\ pc[r] = "done" => (sent[r] = 1 /\ resp[r].kind \in {"json", "text"})
        /\ AllSettled(r) => pc[r] = "done"
        /\ caught[r].thrown => (resp[r].kind = "text" /\ resp[r].status # OkStatus)
        /\ Succeeded(r) => ~caught[r].thrown

\* A popular-TV request past the last page: answered 404, once, without a
\* pass through handleError.
C14_Witness ==
    \E r \in Reqs :
        /\ req[r].ep = "popularTv"
        /\ pc[r] = "done"
        /\ resp[r].status = NotFound
        /\ resp[r].kind = "json"
        /\ ~caught[r].thrown
        /\ sent[r] = 1

====
